---- MODULE Spec2Model ----
(***************************************************************************)
(* Model of the medication extraction pipeline: the OCR gateway graph      *)
(* (prepare_ocr_tasks, the fan-out of extract_single_image_text, the       *)
(* fan-in into MedicationExtractionState, process_medication_data,         *)
(* check_gtin) and the two enrichment nodes check_gtin_in_database_v3 and  *)
(* search_medications_semantic.                                            *)
(*                                                                         *)
(* Python values are modelled as strings: None is the value None below,    *)
(* a str is itself, an int n is "int:n" (see IntRepr).  The record that    *)
(* flows through the back half of the pipeline is an instance of the       *)
(* pydantic class MedicationDetailsModel: a function over ModelFields.     *)
(***************************************************************************)
EXTENDS Integers, Sequences, FiniteSets, TLC

(* ------------------------------------------------------------------ *)
(* Bounds of the model                                                *)
(* ------------------------------------------------------------------ *)
MaxImages == 2       \* images per batch: 0..MaxImages
MaxMix == 1          \* records/entries: at most MaxMix fields differ from all-empty or all-populated
MaxCandidates == 2   \* candidates returned by the vector service: 0..MaxCandidates

(* ------------------------------------------------------------------ *)
(* Python values                                                      *)
(* ------------------------------------------------------------------ *)
None == "<None>"

\* a key a dict does not have
Absent == "<absent>"

\* str(int): the ints that occur in the model and their decimal representation
IntRepr == ("int:0" :> "0") @@ ("int:12" :> "12")

IsInt(v) == v \in DOMAIN IntRepr

\* Python truthiness of None, str and int values
Truthy(v) == v \notin {None, "", "int:0"}

\* str(v) for a str or an int
Str(v) == IF IsInt(v) THEN IntRepr[v] ELSE v

(* ------------------------------------------------------------------ *)
(* The record: MedicationDetailsModel                                 *)
(* ------------------------------------------------------------------ *)
ModelFields ==
    {"bar_code", "lot_number", "expiration_date", "name", "common_denomination",
     "concentration", "form", "form_simple", "brand_name", "country",
     "presentation", "fractions", "quantity", "price"}

\* getattr(obj, attr, None): an attribute that is no field of the model reads as None
GetAttr(rec, attr) == IF attr \in DOMAIN rec THEN rec[attr] ELSE None

\* obj.attr = v on a pydantic model (no extra="allow" in the class): assignment to a
\* name that is no declared field raises ValueError('object has no field')
CanSetAttr(rec, attr) == attr \in DOMAIN rec

\* (mutation of SetAttr: the value is appended to what the field holds)
SetAttrAppend(rec, attr, v) ==
    [rec EXCEPT ![attr] = IF Truthy(@) THEN @ \o " " \o v ELSE v]

SetAttr(rec, attr, v) == [rec EXCEPT ![attr] = v]

(* ------------------------------------------------------------------ *)
(* Bar codes: strings as sequences of characters                      *)
(* ------------------------------------------------------------------ *)
Chars ==
       ("7501287617019" :> <<"7", "5", "0", "1", "2", "8", "7", "6", "1", "7", "0", "1", "9">>)
    @@ ("123" :> <<"1", "2", "3">>)
    @@ ("AB12345678" :> <<"A", "B", "1", "2", "3", "4", "5", "6", "7", "8">>)
    @@ ("7-501287-617019" :> <<"7", "-", "5", "0", "1", "2", "8", "7", "-", "6", "1", "7", "0", "1", "9">>)
    @@ (" 7501 2876 " :> <<" ", "7", "5", "0", "1", " ", "2", "8", "7", "6", " ">>)
    @@ ("\t75012876\n" :> <<"\t", "7", "5", "0", "1", "2", "8", "7", "6", "\n">>)
    @@ ("7501\t2876" :> <<"7", "5", "0", "1", "\t", "2", "8", "7", "6">>)
    @@ ("750128761701" :> <<"7", "5", "0", "1", "2", "8", "7", "6", "1", "7", "0", "1">>)
    @@ ("75012876170190" :> <<"7", "5", "0", "1", "2", "8", "7", "6", "1", "7", "0", "1", "9", "0">>)
    @@ ("7501287617" :> <<"7", "5", "0", "1", "2", "8", "7", "6", "1", "7">>)
    @@ ("---" :> <<"-", "-", "-">>)
    @@ ("750128761701900" :> <<"7", "5", "0", "1", "2", "8", "7", "6", "1", "7", "0", "1", "9", "0", "0">>)
    @@ ("75012876" :> <<"7", "5", "0", "1", "2", "8", "7", "6">>)
    @@ ("" :> <<>>)

\* the values bar_code takes in the model: None, "" and the sample strings
BarCodes == {None} \cup DOMAIN Chars

Digits == {"0", "1", "2", "3", "4", "5", "6", "7", "8", "9"}

Whitespace == {" ", "\t", "\n"}

RECURSIVE LStrip(_)
LStrip(s) == IF s # <<>> /\ Head(s) \in Whitespace THEN LStrip(Tail(s)) ELSE s

RECURSIVE RStrip(_)
RStrip(s) ==
    IF s # <<>> /\ s[Len(s)] \in Whitespace THEN RStrip(SubSeq(s, 1, Len(s) - 1)) ELSE s

\* str.strip()
Strip(s) == RStrip(LStrip(s))

\* str.replace(c, '')
Remove(s, c) == SelectSeq(s, LAMBDA x : x # c)

\* str.isdigit(): non-empty and every character a digit
IsDigit(s) == s # <<>> /\ \A i \in 1..Len(s) : s[i] \in Digits

\* (mutation of CleanCode: the hyphens are kept)
CleanCodeKeepHyphens(code) == Remove(Strip(Chars[code]), " ")

\* bar_code.strip().replace('-', '').replace(' ', '')
CleanCode(code) == Remove(Remove(Strip(Chars[code]), "-"), " ")

ValidLengths == {8, 12, 13, 14}

\* clean_code.isdigit() and len(clean_code) in [8, 12, 13, 14]
IsValidGtin(clean) == IsDigit(clean) /\ Len(clean) \in ValidLengths

\* the two nested conditions of check_gtin_in_database_v3 that guard the lookup
GateEligible(rec) == Truthy(rec["bar_code"]) /\ IsValidGtin(CleanCode(rec["bar_code"]))

(* ------------------------------------------------------------------ *)
(* Inputs: structured records and registry rows                       *)
(* ------------------------------------------------------------------ *)
\* the value a populated field of the structured record holds (text read from the image)
OcrValue ==
       ("lot_number" :> "L2301") @@ ("expiration_date" :> "2026-05")
    @@ ("name" :> "LAGRICEL OFTENO") @@ ("common_denomination" :> "HIALURONATO")
    @@ ("concentration" :> "4 mg/mL") @@ ("form" :> "SOLUCION")
    @@ ("form_simple" :> "COLIRIO") @@ ("brand_name" :> "LABOFTA")
    @@ ("country" :> "CHILE") @@ ("presentation" :> "CAJA")
    @@ ("fractions" :> "20") @@ ("quantity" :> "3") @@ ("price" :> "9.90")

\* the value a populated column of a registry row holds
DbValue ==
       ("Name" :> "LAGRICEL OFTENO 0.4%") @@ ("CommonDenomination" :> "HIALURONATO SODICO")
    @@ ("Concentration" :> "4 MG/ML") @@ ("Form" :> "SOLUCION OFTALMICA")
    @@ ("FormSimple" :> "GOTAS") @@ ("BrandName" :> "SOPHIA")
    @@ ("Country" :> "MEXICO") @@ ("Presentation" :> "CAJA UNIDOSIS")
    @@ ("ProductType" :> "MEDICAMENTO")

NonCodeFields == ModelFields \ {"bar_code"}

\* subsets of S that differ from the empty set or from S in at most k elements
NearSubsets(S, k) ==
    {T \in SUBSET S : Cardinality(T) <= k \/ Cardinality(S \ T) <= k}

\* a MedicationDetailsModel instance: bar_code, the populated fields, and the value an
\* unpopulated Optional[str] field holds (None or ""); name is a required str
MkRecord(code, populated, empty) ==
    [f \in ModelFields |->
        IF f = "bar_code" THEN code
        ELSE IF f \in populated THEN OcrValue[f]
        ELSE IF f = "name" THEN ""
        ELSE empty]

Records(codes, k) ==
    {MkRecord(code, populated, empty) :
        code \in codes, populated \in NearSubsets(NonCodeFields, k), empty \in {None, ""}}

\* the columns of registroclinico.ItemsGtin that check_gtin_in_database_v3 reads
RegistryKeys ==
    {"Name", "CommonDenomination", "Concentration", "Form", "FormSimple", "BrandName",
     "Country", "Presentation", "Fractions", "ProductType"}

TextKeys == RegistryKeys \ {"Fractions"}

\* Fractions may be NULL, a number or a string
FractionValues == {None, "", "int:0", "int:12", "12"}

\* a row returned by query_gtin (as_dict=True): NULL columns are None
MkEntry(populated, empty, fractions) ==
    [k \in RegistryKeys |->
        IF k = "Fractions" THEN fractions
        ELSE IF k \in populated THEN DbValue[k]
        ELSE empty]

RegistryEntries(k) ==
    {MkEntry(populated, empty, fractions) :
        populated \in NearSubsets(TextKeys, k), empty \in {None, ""},
        fractions \in FractionValues}

(* ------------------------------------------------------------------ *)
(* check_gtin_in_database_v3: the enrichment statements, in order     *)
(* ------------------------------------------------------------------ *)
\* (mutation of ExactStatements: the lot number is taken from the registry as well)
ExactStatementsAndLot ==
    << <<"Presentation", "lot_number", "truthy">>,
       <<"CommonDenomination", "common_denomination", "truthy">> >>

\* <<registry column, record attribute, test>>: "truthy" is `if db_result.get(col):`,
\* "notnone" is `if db_result.get(col) is not None:` followed by str()
ExactStatements ==
    << <<"Name", "medication_name", "truthy">>,
       <<"CommonDenomination", "common_denomination", "truthy">>,
       <<"Concentration", "concentration", "truthy">>,
       <<"Form", "form", "truthy">>,
       <<"FormSimple", "form_simple", "truthy">>,
       <<"BrandName", "brand_name", "truthy">>,
       <<"Country", "country", "truthy">>,
       <<"Presentation", "presentation", "truthy">>,
       <<"Fractions", "fractions", "notnone">>,
       <<"ProductType", "product_type", "truthy">> >>

\* does statement st assign?  (lines 390-411: the test looks at the registry value only)
ExactAssigns(rec, db, st) ==
    IF st[3] = "truthy" THEN Truthy(db[st[1]]) ELSE db[st[1]] # None

\* the value statement st assigns
ExactValue(db, st) == IF st[3] = "truthy" THEN db[st[1]] ELSE Str(db[st[1]])

\* the statements from the i-th on, applied in order to the record object; the first
\* assignment to an undeclared attribute raises and leaves the earlier ones in place
RECURSIVE RunExact(_, _, _)
RunExact(rec, db, i) ==
    IF i > Len(ExactStatements) THEN [rec |-> rec, raised |-> FALSE]
    ELSE LET st == ExactStatements[i] IN
         IF ~ExactAssigns(rec, db, st) THEN RunExact(rec, db, i + 1)
         ELSE IF ~CanSetAttr(rec, st[2]) THEN [rec |-> rec, raised |-> TRUE]
         ELSE RunExact(SetAttr(rec, st[2], ExactValue(db, st)), db, i + 1)

\* None where a dict is expected (a row, a candidate)
NoRow == <<>>

\* (mutation of CheckGtinV3: the hit flag is set when the lookup is made, not on a hit)
CheckGtinV3FlagOnLookup(rec, found) ==
    IF ~Truthy(rec["bar_code"]) \/ ~IsValidGtin(CleanCode(rec["bar_code"])) THEN
        [rec |-> rec, database_info |-> NoRow, gtin_found |-> FALSE,
         raised |-> FALSE, lookups |-> <<>>]
    ELSE IF found = NoRow THEN
        [rec |-> rec, database_info |-> NoRow, gtin_found |-> TRUE,
         raised |-> FALSE, lookups |-> <<CleanCode(rec["bar_code"])>>]
    ELSE LET r == RunExact(rec, found, 1) IN
        [rec |-> r.rec, database_info |-> found, gtin_found |-> TRUE,
         raised |-> r.raised, lookups |-> <<CleanCode(rec["bar_code"])>>]

\* check_gtin_in_database_v3(state) for the record rec, when query_gtin answers `found`
\* (a row, or NoRow for a miss and for a registry failure, which query_gtin swallows).
\* lookups: the codes query_gtin was called with.
CheckGtinV3(rec, found) ==
    IF ~Truthy(rec["bar_code"]) THEN
        [rec |-> rec, database_info |-> NoRow, gtin_found |-> FALSE,
         raised |-> FALSE, lookups |-> <<>>]
    ELSE LET clean_code == CleanCode(rec["bar_code"]) IN
        IF ~IsValidGtin(clean_code) THEN
            [rec |-> rec, database_info |-> NoRow, gtin_found |-> FALSE,
             raised |-> FALSE, lookups |-> <<>>]
        ELSE IF found = NoRow THEN
            [rec |-> rec, database_info |-> NoRow, gtin_found |-> FALSE,
             raised |-> FALSE, lookups |-> <<clean_code>>]
        ELSE LET r == RunExact(rec, found, 1) IN
            [rec |-> r.rec, database_info |-> found, gtin_found |-> TRUE,
             raised |-> r.raised, lookups |-> <<clean_code>>]

(* ------------------------------------------------------------------ *)
(* search_medications_semantic                                        *)
(* ------------------------------------------------------------------ *)
\* similarity scores in hundredths
Threshold == 70

\* score_threshold=0.5 of the Qdrant search: no result scores lower
ScoreThreshold == 50

\* top scores: below, at, just above and well above the threshold
Scores == {65, 70, 71, 82}

\* the payload keys the node reads from a candidate
CandidateKeys ==
    {"medication_name", "common_denomination", "concentration", "form", "form_simple",
     "brand_name", "country", "presentation", "product_type", "fractions"}

CandidateTextKeys == CandidateKeys \ {"fractions"}

CandidateValue ==
       ("medication_name" :> "LAGRICEL OFTENO 0.4%") @@ ("common_denomination" :> "HIALURONATO SODICO")
    @@ ("concentration" :> "4 MG/ML") @@ ("form" :> "SOLUCION OFTALMICA")
    @@ ("form_simple" :> "GOTAS") @@ ("brand_name" :> "SOPHIA")
    @@ ("country" :> "MEXICO") @@ ("presentation" :> "CAJA UNIDOSIS")
    @@ ("product_type" :> "MEDICAMENTO")

\* one formatted result of MedicationVectorService.search_medications_semantic
MkCandidate(populated, fractions, score) ==
    [k \in CandidateKeys \cup {"similarity_score"} |->
        IF k = "similarity_score" THEN score
        ELSE IF k = "fractions" THEN fractions
        ELSE IF k \in populated THEN CandidateValue[k]
        ELSE None]

Candidates(k) ==
    {MkCandidate(populated, fractions, score) :
        populated \in NearSubsets(CandidateTextKeys, k),
        fractions \in {None, "int:12", "12"}, score \in Scores}

\* a lower-ranked result: only its score matters to the node
TailCandidate == MkCandidate({"medication_name"}, None, ScoreThreshold)

\* what the vector service returns: [] when the embedding or the index fails or nothing
\* scores 0.5 or more, else at most `limit` results, best first
ResultLists(k, n) ==
    {<<>>} \cup
    {<<c>> \o [i \in 1..m |-> TailCandidate] : c \in Candidates(k), m \in 0..(n - 1)}

\* the attributes the query is built from, in order (lines 32-50)
QueryAttrs == <<"medication_name", "common_denomination", "concentration", "form_simple", "brand_name">>

\* search_terms: the truthy getattr(record, attr, None) of the attributes from the i-th on
RECURSIVE SearchTerms(_, _)
SearchTerms(rec, i) ==
    IF i > Len(QueryAttrs) THEN <<>>
    ELSE (IF Truthy(GetAttr(rec, QueryAttrs[i])) THEN <<GetAttr(rec, QueryAttrs[i])>> ELSE <<>>)
         \o SearchTerms(rec, i + 1)

\* the attributes the node fills from the best match, in order (lines 71-96)
SemanticStatements ==
    <<"common_denomination", "concentration", "form", "form_simple", "brand_name",
      "country", "presentation", "product_type", "fractions">>

\* (mutation of SemanticAssigns: the record's own value is not looked at)
SemanticAssignsOverwrite(rec, best, attr) == Truthy(best[attr])

\* `if not getattr(processed_medication, attr, None) and best_match.get(attr):`
SemanticAssigns(rec, best, attr) == ~Truthy(GetAttr(rec, attr)) /\ Truthy(best[attr])

RECURSIVE RunSemantic(_, _, _)
RunSemantic(rec, best, i) ==
    IF i > Len(SemanticStatements) THEN [rec |-> rec, raised |-> FALSE]
    ELSE LET attr == SemanticStatements[i] IN
         IF ~SemanticAssigns(rec, best, attr) THEN RunSemantic(rec, best, i + 1)
         ELSE IF ~CanSetAttr(rec, attr) THEN [rec |-> rec, raised |-> TRUE]
         ELSE RunSemantic(SetAttr(rec, attr, best[attr]), best, i + 1)

\* best_match['similarity_score'] > 0.7
AboveThreshold(score) == score > Threshold

\* search_medications_semantic(state) for the record rec, when the vector service
\* returns `results`.  raised: "IndexError" (semantic_results[0] of an empty list),
\* "ValueError" (assignment to an undeclared attribute) or "" when the node returns;
\* a node that raises returns no state update.
SearchSemantic(rec, results) ==
    IF results = <<>> THEN
        [rec |-> rec, raised |-> "IndexError", query |-> SearchTerms(rec, 1),
         semantic_results |-> <<>>, semantic_best_match |-> NoRow,
         enrichment_applied |-> FALSE]
    ELSE LET best == results[1]
             r == IF AboveThreshold(best["similarity_score"])
                  THEN RunSemantic(rec, best, 1)
                  ELSE [rec |-> rec, raised |-> FALSE]
         IN IF r.raised THEN
               [rec |-> r.rec, raised |-> "ValueError", query |-> SearchTerms(rec, 1),
                semantic_results |-> <<>>, semantic_best_match |-> NoRow,
                enrichment_applied |-> FALSE]
            ELSE
               [rec |-> r.rec, raised |-> "", query |-> SearchTerms(rec, 1),
                semantic_results |-> results, semantic_best_match |-> best,
                enrichment_applied |-> AboveThreshold(best["similarity_score"])]

(* ------------------------------------------------------------------ *)
(* The OCR gateway graph                                              *)
(* ------------------------------------------------------------------ *)
VARIABLES
    pc,                   \* the node the run is at: "START", a node name, "END", or "raised"
    files,                \* state["files"]: the batch, a sequence of file names
    ocr_provider,         \* state["ocr_provider"]; None when the key is absent
    available_providers,  \* OCRGatewayExtractor.available_providers
    tasks,                \* the Send tasks of the fan-out, in the order they were created
    extracted_texts,      \* state["extracted_texts"] (reducer operator.add)
    file_names,           \* state["file_names"] (no reducer)
    ocr_provider_used,    \* state.get("ocr_provider_used"); no key of the state schema
    processed_medications,\* state["processed_medications"]; NoRow when absent
    before,               \* the record as the structuring stage produced it
    database_info,        \* state["database_info"]
    gtin_found,           \* state["gtin_found"]
    error,                \* the exception the run or node raised, "" when none
    calls,                \* the nodes invoked so far, in order
    lookups,              \* the codes gtin_service.query_gtin was called with, in order
    registry_row,         \* the row the last query_gtin call returned, NoRow for none
    vector_results,       \* what the vector service returned to the semantic node
    search_query,         \* the terms of the query the semantic node sent
    semantic_results,     \* state["semantic_results"]
    semantic_best_match,  \* state["semantic_best_match"]
    enrichment_applied,   \* state["enrichment_applied"]
    q_op,                 \* the GtinService method in progress: "query_gtin", "search_products"
    q_pc,                 \* where that call is: "idle", "loop", "execute", "except",
                          \* "returned", "raised" (execute_query), "done" (the method returned)
    retry_count,          \* execute_query's local retry_count
    connection,           \* GtinDatabaseConnection.connection: a handle, 0 for None
    handles,              \* how many connections pymssql.connect has established
    closed,               \* the handles close() was called on
    attempts,             \* the iterations of execute_query's loop so far, each with the
                          \* handle it ran on (0 when connect raised) and how it ended
    q_return,             \* what the GtinService method returned
    q_outcome,            \* what happened in the registry: "hit", "miss", "failed"; "" before
    last_connection_time, \* GtinDatabaseConnection.last_connection_time: the handle whose
                          \* opening set it, 0 as __init__ leaves it
    http_status,          \* the status code the endpoint answered with, 0 before it answers
    content_types,        \* file.content_type of each uploaded file, None when the part has none
    vectorize_call,       \* the locals of one call of vectorize_all_medications
    graph_invoked,        \* whether ocr_graph.ainvoke was called
    vectorization_status, \* the module global _vectorization_status of vectorization.py
    responses,            \* the answers of the vectorization endpoints so far, in order
    bg_tasks,             \* the _run_vectorization_process tasks added so far, in order
    broken,               \* the handles the server no longer answers on
    conn_events           \* the calls made on GtinDatabaseConnection and their results

vars ==
    <<pc, files, ocr_provider, available_providers, tasks, extracted_texts, file_names,
      ocr_provider_used, processed_medications, before, database_info, gtin_found, error, calls, lookups,
      registry_row, vector_results, search_query, semantic_results, semantic_best_match,
      enrichment_applied, q_op, q_pc, retry_count, connection, handles, closed, attempts,
      q_return, q_outcome, last_connection_time, http_status, content_types, vectorize_call, graph_invoked, vectorization_status,
      responses, bg_tasks, broken, conn_events>>

graphVars ==
    <<files, ocr_provider, available_providers, tasks, extracted_texts, file_names,
      ocr_provider_used>>

\* what the graph's nodes before check_gtin leave alone
semanticVars ==
    <<registry_row, vector_results, search_query, semantic_results, semantic_best_match, enrichment_applied>>

\* the registry service and its connection
dbVars ==
    <<q_op, q_pc, retry_count, connection, handles, closed, attempts, q_return, q_outcome,
      last_connection_time>>

\* the HTTP endpoints, the vectorization job and the direct use of the connection
apiVars ==
    <<http_status, content_types, vectorize_call, graph_invoked, vectorization_status, responses, bg_tasks,
      broken, conn_events>>

\* the names of the uploaded files
FileNames == [i \in 1..(MaxImages + 1) |-> i]

Batches == {[i \in 1..n |-> FileNames[i]] : n \in 0..MaxImages}

\* OCRProvider
OCRProviders == {"mistral", "gemini"}

\* the provider parameter of a request: absent, empty, a provider in any case, or unknown
ProviderInputs == {None, "", "mistral", "gemini", "GEMINI", "tesseract"}

\* str.lower() on the provider names of the model
Lower(name) == IF name = "GEMINI" THEN "gemini" ELSE name

\* available_providers as __init__ fills it: mistral first, then gemini
ProviderConfigs == {<<>>, <<"mistral">>, <<"gemini">>, <<"mistral", "gemini">>}

InSeq(x, s) == \E i \in 1..Len(s) : s[i] = x

\* the values set before the run starts, and the keys no node has written yet
GraphInit ==
    /\ files \in Batches
    /\ ocr_provider \in ProviderInputs
    /\ available_providers \in ProviderConfigs
    /\ tasks = <<>>
    /\ extracted_texts = <<>>
    /\ file_names = <<>>
    /\ ocr_provider_used = <<>>

NoRecordYet ==
    /\ processed_medications = NoRow
    /\ before = NoRow

NoEnrichmentYet ==
    /\ database_info = NoRow
    /\ gtin_found = FALSE
    /\ lookups = <<>>
    /\ registry_row = NoRow
    /\ vector_results = <<>>
    /\ search_query = <<>>
    /\ semantic_results = <<>>
    /\ semantic_best_match = NoRow
    /\ enrichment_applied = FALSE

\* the values a GtinService method returns: None, a row (dict), a list of rows; and the
\* value of q_return while nothing has been returned
PyNone == [kind |-> "None"]

PyDict(row) == [kind |-> "dict", value |-> row]

PyList(rows) == [kind |-> "list", value |-> rows]

NotReturned == [kind |-> "unset"]

\* no GtinService call is in progress and none was made
ServiceIdle ==
    /\ q_op = ""
    /\ q_pc = "idle"
    /\ retry_count = 0
    /\ connection = 0
    /\ handles = 0
    /\ closed = {}
    /\ attempts = <<>>
    /\ q_return = NotReturned
    /\ q_outcome = ""
    /\ last_connection_time = 0

\* _vectorization_status as the module defines it; the keys the handlers add later
\* (stop_requested, end_time, error) are absent
IdleStatus ==
    [is_running |-> FALSE, start_time |-> None, progress |-> 0, status |-> "idle",
     last_result |-> None, stop_requested |-> Absent, end_time |-> Absent, error |-> Absent]

\* vectorize_all_medications has not been called
NoCall == [pc |-> "idle"]

\* no request was answered, no task added, no call made on the connection
ApiIdle ==
    /\ http_status = 0
    /\ content_types = <<>>
    /\ vectorize_call = NoCall
    /\ graph_invoked = FALSE
    /\ vectorization_status = IdleStatus
    /\ responses = <<>>
    /\ bg_tasks = <<>>
    /\ broken = {}
    /\ conn_events = <<>>

Init ==
    /\ pc = "START"
    /\ GraphInit
    /\ NoRecordYet
    /\ NoEnrichmentYet
    /\ ServiceIdle
    /\ ApiIdle
    /\ error = ""
    /\ calls = <<>>

\* (mutation of BatchProvider: a missing or empty selection is left as it is)
BatchProviderAsGiven(provider) == provider

\* `if 'ocr_provider' not in state or not state['ocr_provider']: state['ocr_provider'] = 'mistral'`
BatchProvider(provider) == IF ~Truthy(provider) THEN "mistral" ELSE provider

\* _prepare_ocr_tasks_node: the accumulators start empty, the provider defaults to mistral
PrepareOcrTasks ==
    /\ pc = "START"
    /\ pc' = "prepare_ocr_tasks"
    /\ ocr_provider' = BatchProvider(ocr_provider)
    /\ extracted_texts' = extracted_texts \o <<>>
    /\ file_names' = <<>>
    /\ calls' = Append(calls, "prepare_ocr_tasks")
    /\ UNCHANGED <<files, available_providers, tasks, ocr_provider_used,
                   processed_medications, before, database_info, gtin_found, error,
                   lookups, semanticVars, dbVars, apiVars>>

\* (mutation of Sends: the last file of the batch gets no task)
SendsDropLast(fs, provider) ==
    [i \in 1..(Len(fs) - 1) |->
        [file |-> fs[i], ocr_provider |-> provider, pc |-> "pending", provider |-> None,
         text |-> None, provider_used |-> None, ocr_calls |-> 0,
         stream |-> None, image_bytes |-> None, stream_after |-> None]]

\* the Send objects distribute_image_processing creates: one per file, in order, each
\* carrying the file and the batch's provider
Sends(fs, provider) ==
    [i \in 1..Len(fs) |->
        [file |-> fs[i], ocr_provider |-> provider, pc |-> "pending", provider |-> None,
         text |-> None, provider_used |-> None, ocr_calls |-> 0,
         stream |-> None, image_bytes |-> None, stream_after |-> None]]

\* (mutation of ProcessDirectlyTarget: an empty batch ends the run)
ProcessDirectlyToEnd == "END"

\* the node the key "process_directly" is mapped to in conditional_edges
ProcessDirectlyTarget == "process_medication_data"

\* distribute_image_processing, the conditional edge out of prepare_ocr_tasks
DistributeImageProcessing ==
    /\ pc = "prepare_ocr_tasks"
    /\ IF files = <<>>
       THEN /\ pc' = ProcessDirectlyTarget
            /\ tasks' = tasks
       ELSE /\ pc' = "extract_single_image_text_node"
            /\ tasks' = Sends(files, IF ocr_provider = None THEN "mistral" ELSE ocr_provider)
    /\ UNCHANGED <<files, ocr_provider, available_providers, extracted_texts, file_names,
                   ocr_provider_used, processed_medications, before, database_info,
                   gtin_found, error, calls, lookups, semanticVars, dbVars, apiVars>>

\* (mutation of ResolveProvider: a known provider that is not configured is replaced
\* by the first configured one)
ResolveProviderFallback(provider_name, available) ==
    IF Truthy(provider_name) /\ Lower(provider_name) \in OCRProviders
          /\ InSeq(Lower(provider_name), available)
    THEN Lower(provider_name)
    ELSE IF available # <<>> THEN available[1] ELSE None

\* the provider extract_single_image_text resolves from the task's provider name
\* (lines 123-134); None when there is none
ResolveProvider(provider_name, available) ==
    IF Truthy(provider_name)
    THEN IF Lower(provider_name) \in OCRProviders THEN Lower(provider_name)
         ELSE IF available # <<>> THEN available[1] ELSE None
    ELSE IF available # <<>> THEN available[1] ELSE None

\* where the read position of an UploadFile's stream can be
StreamPositions == {"start", "middle", "end"}

\* the endpoint looks at content_type only: the graph gets every stream at its start
RequestStreamPositions == {"start"}

\* file.read(): the bytes from the read position to the end of the image
ReadFrom(pos) ==
    CASE pos = "start" -> "whole image"
      [] pos = "middle" -> "tail of the image"
      [] pos = "end" -> "no bytes"

\* _process_with_mistral / _process_with_gemini on a stream at position pos:
\* image_bytes = await file.read(), then await file.seek(0)
ProcessWithProvider(pos) == [image_bytes |-> ReadFrom(pos), stream_after |-> "start"]

\* extract_single_image_text up to its first suspension, for a file whose stream is at
\* one of `positions`: a task whose provider is not configured returns its error result
\* at once, the others read the stream and await the OCR call on the bytes
ExtractStartAt(i, positions) ==
    /\ pc = "extract_single_image_text_node"
    /\ i \in 1..Len(tasks)
    /\ tasks[i].pc = "pending"
    /\ LET provider == ResolveProvider(tasks[i].ocr_provider, available_providers) IN
       IF provider = None \/ ~InSeq(provider, available_providers)
       THEN tasks' = [tasks EXCEPT ![i].pc = "done",
                                   ![i].text = "Error: OCR Provider not available.",
                                   ![i].provider_used = "error"]
       ELSE \E pos \in positions :
               tasks' = [tasks EXCEPT ![i].pc = "awaiting_ocr",
                                      ![i].provider = provider,
                                      ![i].ocr_calls = @ + 1,
                                      ![i].stream = pos,
                                      ![i].image_bytes = ProcessWithProvider(pos).image_bytes,
                                      ![i].stream_after = ProcessWithProvider(pos).stream_after]
    /\ calls' = Append(calls, "extract_single_image_text_node")
    /\ UNCHANGED <<pc, files, ocr_provider, available_providers, extracted_texts,
                   file_names, ocr_provider_used, processed_medications, before,
                   database_info, gtin_found, error, lookups, semanticVars, dbVars, apiVars>>

\* the extraction task of a pipeline run
ExtractStart(i) == ExtractStartAt(i, RequestStreamPositions)

\* the OCR call returns text, or raises and the task turns the exception into an error text
ExtractFinish(i) ==
    /\ pc = "extract_single_image_text_node"
    /\ i \in 1..Len(tasks)
    /\ tasks[i].pc = "awaiting_ocr"
    /\ \E text \in {"extracted text", "Error processing file"} :
          tasks' = [tasks EXCEPT ![i].pc = "done",
                                 ![i].text = text,
                                 ![i].provider_used = tasks[i].provider]
    /\ UNCHANGED <<pc, files, ocr_provider, available_providers, extracted_texts,
                   file_names, ocr_provider_used, processed_medications, before,
                   database_info, gtin_found, error, calls, lookups, semanticVars, dbVars, apiVars>>

AllTasksDone == \A i \in 1..Len(tasks) : tasks[i].pc = "done"

\* the end of the fan-out step: the tasks' updates are applied to the state's channels.
\* extracted_texts has the reducer operator.add; file_names has none, so it accepts one
\* write per step (InvalidUpdateError otherwise); ocr_provider_used is no key of
\* MedicationExtractionState and its writes are dropped.
FanIn ==
    /\ pc = "extract_single_image_text_node"
    /\ AllTasksDone
    /\ IF Len(tasks) > 1
       THEN /\ pc' = "raised"
            /\ error' = "InvalidUpdateError"
            /\ UNCHANGED <<extracted_texts, file_names>>
       ELSE /\ pc' = "process_medication_data"
            /\ error' = error
            /\ extracted_texts' = extracted_texts \o [i \in 1..Len(tasks) |-> tasks[i].text]
            /\ file_names' = [i \in 1..Len(tasks) |-> tasks[i].file]
    /\ ocr_provider_used' = ocr_provider_used
    /\ UNCHANGED <<files, ocr_provider, available_providers, tasks, processed_medications,
                   before, database_info, gtin_found, calls, lookups, semanticVars, dbVars, apiVars>>

\* the populated fields of the records the structuring call returns in a run
StructuredShapes == {{}, {"name"}, NonCodeFields}

StructuredOutputs ==
    {MkRecord(code, populated, None) : code \in BarCodes, populated \in StructuredShapes}

\* process_medication_data: the structured-output call returns a record; the node
\* returns the whole state, so extracted_texts is added to itself by its reducer
ProcessMedicationData ==
    /\ pc = "process_medication_data"
    /\ \E rec \in StructuredOutputs :
          /\ processed_medications' = rec
          /\ before' = rec
    /\ extracted_texts' = extracted_texts \o extracted_texts
    /\ pc' = "check_gtin"
    /\ calls' = Append(calls, "process_medication_data")
    /\ UNCHANGED <<files, ocr_provider, available_providers, tasks, file_names,
                   ocr_provider_used, database_info, gtin_found, error, lookups,
                   semanticVars, dbVars, apiVars>>

\* process_medication_data: the call raises (model failure, output that fails the
\* schema); nothing catches it
ProcessMedicationDataRaises ==
    /\ pc = "process_medication_data"
    /\ pc' = "raised"
    /\ error' = "StructuringError"
    /\ calls' = Append(calls, "process_medication_data")
    /\ UNCHANGED <<graphVars, processed_medications, before, database_info, gtin_found,
                   lookups, semanticVars, dbVars, apiVars>>

\* the rows query_gtin returns in a run
PipelineRows ==
    {MkEntry({}, None, None),
     MkEntry(TextKeys \ {"Name", "ProductType"}, None, "12"),
     MkEntry(TextKeys, None, "int:12")}

\* (mutation of CheckGtinTarget: the edge out of check_gtin leads back to structuring)
CheckGtinTargetBack == "process_medication_data"

\* add_edge("check_gtin", END)
CheckGtinTarget == "END"

\* one call of check_gtin_in_database_v3 on the state's record, query_gtin answering
\* `found`: the record object is mutated in place, the returned keys are written to the
\* state unless the call raises
ApplyCheckGtin(found) ==
    LET r == CheckGtinV3(processed_medications, found) IN
    /\ processed_medications' = r.rec
    /\ lookups' = lookups \o r.lookups
    /\ registry_row' = IF r.lookups = <<>> THEN NoRow ELSE found
    /\ IF r.raised
       THEN /\ pc' = "raised"
            /\ error' = "ValueError"
            /\ UNCHANGED <<database_info, gtin_found>>
       ELSE /\ pc' = CheckGtinTarget
            /\ error' = error
            /\ database_info' = r.database_info
            /\ gtin_found' = r.gtin_found
    /\ calls' = Append(calls, "check_gtin")
    /\ UNCHANGED <<graphVars, before, vector_results, search_query, semantic_results,
                   semantic_best_match, enrichment_applied, dbVars, apiVars>>

\* the node check_gtin = check_gtin_in_database_v3, query_gtin answering from `rows`
CheckGtin(rows) ==
    /\ pc = "check_gtin"
    /\ \E found \in {NoRow} \cup rows : ApplyCheckGtin(found)

Next ==
    \/ PrepareOcrTasks
    \/ DistributeImageProcessing
    \/ \E i \in 1..MaxImages + 1 : ExtractStart(i)
    \/ \E i \in 1..MaxImages + 1 : ExtractFinish(i)
    \/ FanIn
    \/ ProcessMedicationData
    \/ ProcessMedicationDataRaises
    \/ CheckGtin(PipelineRows)

Spec == Init /\ [][Next]_vars

(* ------------------------------------------------------------------ *)
(* The extraction tasks on their own, over all stream positions       *)
(* ------------------------------------------------------------------ *)
InitExtract ==
    /\ pc = "extract_single_image_text_node"
    /\ files \in Batches \ {<<>>}
    /\ ocr_provider \in ProviderInputs \ {None, ""}
    /\ available_providers \in ProviderConfigs
    /\ tasks = Sends(files, ocr_provider)
    /\ extracted_texts = <<>>
    /\ file_names = <<>>
    /\ ocr_provider_used = <<>>
    /\ NoRecordYet
    /\ NoEnrichmentYet
    /\ ServiceIdle
    /\ ApiIdle
    /\ error = ""
    /\ calls = <<"prepare_ocr_tasks">>

NextExtract ==
    \/ \E i \in 1..MaxImages + 1 : ExtractStartAt(i, StreamPositions)
    \/ \E i \in 1..MaxImages + 1 : ExtractFinish(i)
    \/ FanIn

SpecExtract == InitExtract /\ [][NextExtract]_vars

(* ------------------------------------------------------------------ *)
(* The exact-match node on its own, over all records and rows         *)
(* ------------------------------------------------------------------ *)
\* bar codes for the node's three paths: no code, a code that fails the gate, codes that pass
ExactCodes == {None, "123", "7-501287-617019", "75012876"}

NodeGraphInit ==
    /\ files = <<>>
    /\ ocr_provider = "mistral"
    /\ available_providers = <<"mistral">>
    /\ tasks = <<>>
    /\ extracted_texts = <<>>
    /\ file_names = <<>>
    /\ ocr_provider_used = <<>>

InitExact ==
    /\ pc = "check_gtin"
    /\ NodeGraphInit
    /\ processed_medications \in Records(ExactCodes, MaxMix)
    /\ before = processed_medications
    /\ NoEnrichmentYet
    /\ ServiceIdle
    /\ ApiIdle
    /\ error = ""
    /\ calls = <<>>

NextExact == CheckGtin(RegistryEntries(MaxMix))

SpecExact == InitExact /\ [][NextExact]_vars

\* check_gtin_in_database_v3 applied a second time to the record object the first call
\* left, against the same registry: the same code gets the same answer
CheckGtinAgain ==
    /\ pc \in {"END", "raised"}
    /\ Len(calls) = 1
    /\ ApplyCheckGtin(registry_row)

NextExactTwice ==
    \/ CheckGtin(RegistryEntries(MaxMix))
    \/ CheckGtinAgain

SpecExactTwice == InitExact /\ [][NextExactTwice]_vars

(* ------------------------------------------------------------------ *)
(* The semantic-match node on its own                                 *)
(* ------------------------------------------------------------------ *)
SemanticCodes == {None}

InitSemantic ==
    /\ pc = "search_medications_semantic"
    /\ NodeGraphInit
    /\ processed_medications \in Records(SemanticCodes, MaxMix)
    /\ before = processed_medications
    /\ NoEnrichmentYet
    /\ ServiceIdle
    /\ ApiIdle
    /\ error = ""
    /\ calls = <<>>

\* one call of search_medications_semantic on the state's record, the vector service
\* answering `results`: the record object is mutated in place, the returned keys are
\* written to the state unless the call raises
ApplySearchSemantic(results) ==
    LET r == SearchSemantic(processed_medications, results) IN
    /\ vector_results' = results
    /\ search_query' = r.query
    /\ processed_medications' = r.rec
    /\ error' = r.raised
    /\ pc' = IF r.raised = "" THEN "END" ELSE "raised"
    /\ semantic_results' = r.semantic_results
    /\ semantic_best_match' = r.semantic_best_match
    /\ enrichment_applied' = r.enrichment_applied
    /\ calls' = Append(calls, "search_medications_semantic")
    /\ UNCHANGED <<graphVars, before, database_info, gtin_found, lookups, registry_row,
                   dbVars, apiVars>>

\* the node search_medications_semantic, the vector service answering from `lists`
SearchMedicationsSemantic(lists) ==
    /\ pc = "search_medications_semantic"
    /\ \E results \in lists : ApplySearchSemantic(results)

NextSemantic == SearchMedicationsSemantic(ResultLists(MaxMix, MaxCandidates))

SpecSemantic == InitSemantic /\ [][NextSemantic]_vars

(* ------------------------------------------------------------------ *)
(* GtinDatabaseConnection and GtinService                             *)
(* ------------------------------------------------------------------ *)
MAX_RETRIES == 3

\* the state of a run of the graph
pipelineVars ==
    <<pc, graphVars, processed_medications, before, database_info, gtin_found, error,
      calls, lookups, semanticVars>>

\* everything but the registry service
nodeVars == <<pipelineVars, apiVars>>

GtinServiceOps == {"query_gtin", "search_products"}

\* the singleton's connection when a call starts: None, or the handle an earlier call
\* (check_has_data, an earlier request) left open
InitService(ops) ==
    /\ q_op \in ops
    /\ q_pc = "idle"
    /\ retry_count = 0
    /\ connection \in {0, 1}
    /\ handles = connection
    /\ closed = {}
    /\ attempts = <<>>
    /\ q_return = NotReturned
    /\ q_outcome = ""
    /\ last_connection_time = connection

\* what cursor.fetchall() returns for the method's SELECT: no row, one row, two rows
ResultSets ==
    {<<>>} \cup {<<row>> : row \in PipelineRows}
           \cup {<<MkEntry(TextKeys, None, "int:12"), MkEntry({}, None, None)>>}

\* (mutation of RetryAllowed: one more iteration than MAX_RETRIES)
RetryAllowedOnceMore(n) == n <= MAX_RETRIES

\* `while retry_count < MAX_RETRIES` and `if retry_count < MAX_RETRIES` of execute_query
RetryAllowed(n) == n < MAX_RETRIES

\* the service method calls self.db.execute_query: retry_count = 0, last_exception = None
QueryStart ==
    /\ q_pc = "idle"
    /\ q_op \in GtinServiceOps
    /\ q_pc' = "loop"
    /\ retry_count' = 0
    /\ UNCHANGED <<q_op, connection, handles, closed, attempts, q_return, q_outcome,
                   last_connection_time, nodeVars>>

\* force_new=(retry_count > 0)
ForceNew(n) == n > 0

\* conn = self.connect(force_new=(retry_count > 0)): the open connection is reused when
\* it answers SELECT 1 and is young enough (`reusable`); otherwise it is closed, set to
\* None, and pymssql.connect is tried up to MAX_RETRIES times; `fails` of them fail.
\* When all fail connect raises into execute_query's except block.
Connect ==
    /\ q_pc = "loop"
    /\ RetryAllowed(retry_count)
    /\ \E reusable \in BOOLEAN, fails \in 0..MAX_RETRIES :
          IF connection # 0 /\ ~ForceNew(retry_count) /\ reusable
          THEN /\ q_pc' = "execute"
               /\ UNCHANGED <<connection, handles, closed, attempts, last_connection_time>>
          ELSE /\ closed' = IF connection # 0 THEN closed \cup {connection} ELSE closed
               /\ IF fails < MAX_RETRIES
                  THEN /\ connection' = handles + 1
                       /\ handles' = handles + 1
                       /\ last_connection_time' = handles + 1
                       /\ q_pc' = "execute"
                       /\ attempts' = attempts
                  ELSE /\ connection' = 0
                       /\ handles' = handles
                       /\ last_connection_time' = last_connection_time
                       /\ q_pc' = "except"
                       /\ attempts' = Append(attempts, [handle |-> 0, ended |-> "connect_failed"])
    /\ UNCHANGED <<q_op, retry_count, q_return, q_outcome, nodeVars>>

\* conn.cursor(), cursor.execute(query, params), cursor.fetchall(): the rows are returned
\* (the finally clause closes the cursor), or one of the calls raises
Execute ==
    /\ q_pc = "execute"
    /\ \/ \E results \in ResultSets :
             /\ q_pc' = "returned"
             /\ q_return' = PyList(results)
             /\ attempts' = Append(attempts, [handle |-> connection, ended |-> "ok"])
       \/ /\ q_pc' = "except"
          /\ q_return' = q_return
          /\ attempts' = Append(attempts, [handle |-> connection, ended |-> "query_failed"])
    /\ UNCHANGED <<q_op, retry_count, connection, handles, closed, q_outcome,
                   last_connection_time, nodeVars>>

\* (mutation of Disconnect: the handle is left in place, open)
DisconnectKeeps(conn) == [connection |-> conn, closed |-> {}]

\* disconnect(): an open connection is closed and self.connection set to None
Disconnect(conn) == [connection |-> 0, closed |-> IF conn # 0 THEN {conn} ELSE {}]

\* the except block of execute_query: count the failure, disconnect(), then sleep and
\* loop, or re-raise after the last try
HandleFailure ==
    /\ q_pc = "except"
    /\ retry_count' = retry_count + 1
    /\ closed' = closed \cup Disconnect(connection).closed
    /\ connection' = Disconnect(connection).connection
    /\ q_pc' = IF RetryAllowed(retry_count + 1) THEN "loop" ELSE "raised"
    /\ UNCHANGED <<q_op, handles, attempts, q_return, q_outcome, last_connection_time,
                   nodeVars>>

\* (mutation of Catches: search_products lets the exception out)
CatchesQueryOnly(op) == op = "query_gtin"

\* both methods wrap their body in try / except Exception
Catches(op) == op \in {"query_gtin", "search_products"}

\* the end of the service method. query_gtin: None when execute_query raised or returned
\* no row, else the first row; search_products: [] when execute_query raised, else the
\* rows. q_return holds execute_query's rows until then.
ServiceReturn ==
    /\ q_pc \in {"returned", "raised"}
    /\ IF q_pc = "raised"
       THEN /\ q_outcome' = "failed"
            /\ IF Catches(q_op)
               THEN /\ q_pc' = "done"
                    /\ q_return' = IF q_op = "query_gtin" THEN PyNone ELSE PyList(<<>>)
               ELSE /\ q_pc' = "raised_out"
                    /\ q_return' = q_return
       ELSE /\ q_pc' = "done"
            /\ q_outcome' = IF q_return.value = <<>> THEN "miss" ELSE "hit"
            /\ q_return' = IF q_op = "search_products" THEN q_return
                           ELSE IF q_return.value = <<>> THEN PyNone
                           ELSE PyDict(q_return.value[1])
    /\ UNCHANGED <<q_op, retry_count, connection, handles, closed, attempts,
                   last_connection_time, nodeVars>>

InitQuery ==
    /\ pc = "GtinService"
    /\ NodeGraphInit
    /\ NoRecordYet
    /\ NoEnrichmentYet
    /\ InitService(GtinServiceOps)
    /\ ApiIdle
    /\ error = ""
    /\ calls = <<>>

NextQuery ==
    \/ QueryStart
    \/ Connect
    \/ Execute
    \/ HandleFailure
    \/ ServiceReturn

SpecQuery == InitQuery /\ [][NextQuery]_vars

\* every call returns or raises in the end (timeout, login_timeout), and the code goes on
SpecQueryFair == SpecQuery /\ WF_vars(NextQuery)

(* ------------------------------------------------------------------ *)
(* The exact-match node on top of the registry service                *)
(* ------------------------------------------------------------------ *)
InitLookup ==
    /\ pc = "check_gtin"
    /\ NodeGraphInit
    /\ processed_medications \in StructuredOutputs
    /\ before = processed_medications
    /\ NoEnrichmentYet
    /\ InitService({"query_gtin"})
    /\ ApiIdle
    /\ error = ""
    /\ calls = <<>>

\* gtin_service.query_gtin(clean_code), made for a record that passes the gate
LookupStart ==
    /\ pc = "check_gtin"
    /\ GateEligible(processed_medications)
    /\ QueryStart

\* (mutation of RowOf: a lookup without result is handed on as a row of NULLs)
RowOfNulls(v) == IF v.kind = "dict" THEN v.value ELSE MkEntry({}, None, None)

\* db_result as check_gtin_in_database_v3 sees it
RowOf(v) == IF v.kind = "dict" THEN v.value ELSE NoRow

\* the rest of check_gtin_in_database_v3 once query_gtin has returned, or all of it for
\* a record that does not pass the gate
CheckGtinReturn ==
    /\ pc = "check_gtin"
    /\ IF GateEligible(processed_medications)
       THEN q_pc = "done" /\ ApplyCheckGtin(RowOf(q_return))
       ELSE q_pc = "idle" /\ ApplyCheckGtin(NoRow)

NextLookup ==
    \/ LookupStart
    \/ Connect
    \/ Execute
    \/ HandleFailure
    \/ ServiceReturn
    \/ CheckGtinReturn

SpecLookup == InitLookup /\ [][NextLookup]_vars

(* ------------------------------------------------------------------ *)
(* Properties                                                         *)
(* ------------------------------------------------------------------ *)
Count(x, seq) == Cardinality({i \in 1..Len(seq) : seq[i] = x})

Terminal == pc \in {"END", "raised"}

\* the node under study has run (it returned or raised)
ExactRan == InSeq("check_gtin", calls)

SemanticRan == InSeq("search_medications_semantic", calls)

\* every field that was populated before the enrichment step holds the same value
PopulatedFieldsKept ==
    \A f \in ModelFields :
        Truthy(before[f]) => processed_medications[f] = before[f]

\* C1: exact-match enrichment on a registry hit never changes a field of the record
\* that was non-empty before the step, whatever the registry row holds.
C1_ExactNeverOverwrites ==
    (ExactRan /\ registry_row # NoRow) => PopulatedFieldsKept

\* C2: semantic-match enrichment never changes a field of the record that was
\* non-empty before the step, for every candidate list and every score.
C2_SemanticNeverOverwrites == SemanticRan => PopulatedFieldsKept

\* C2 witness: the node enriched a record from a best match that holds a different
\* value for a field the record had populated
C2_Witness ==
    /\ SemanticRan
    /\ pc = "END"
    /\ enrichment_applied
    /\ processed_medications # before
    /\ \E f \in ModelFields \cap CandidateKeys :
          /\ Truthy(before[f])
          /\ Truthy(semantic_best_match[f])
          /\ semantic_best_match[f] # before[f]

\* the gate as the claim words it: the code with hyphens, blanks and surrounding
\* whitespace removed is non-empty, all digits, and 8, 12, 13 or 14 long
C3_Stripped(code) ==
    SelectSeq(Strip(Chars[code]), LAMBDA c : c \notin {"-", " "})

C3_Eligible(code) ==
    /\ code # None
    /\ C3_Stripped(code) # <<>>
    /\ \A i \in 1..Len(C3_Stripped(code)) : C3_Stripped(code)[i] \in Digits
    /\ Len(C3_Stripped(code)) \in {8, 12, 13, 14}

C4_RoutedByGate ==
    pc = "END" =>
        /\ GateEligible(before) => ExactRan
        /\ ~GateEligible(before) => SemanticRan

\* C5: the semantic node changes the record only when the top score is above 0.7; at
\* 0.7 or less the record is unchanged, enrichment_applied is false and the candidates
\* are returned; above 0.7 enrichment_applied is true.
C5_ThresholdDecides ==
    (SemanticRan /\ vector_results # <<>>) =>
        LET top == vector_results[1]["similarity_score"] IN
        /\ processed_medications # before => top > Threshold
        /\ top <= Threshold =>
              /\ pc = "END"
              /\ processed_medications = before
              /\ ~enrichment_applied
              /\ semantic_results = vector_results
        /\ top > Threshold => (pc = "END" /\ enrichment_applied)

\* the record field each registry column fills, as the claim lists them
C6_Column ==
       ("common_denomination" :> "CommonDenomination") @@ ("concentration" :> "Concentration")
    @@ ("form" :> "Form") @@ ("form_simple" :> "FormSimple") @@ ("brand_name" :> "BrandName")
    @@ ("country" :> "Country") @@ ("presentation" :> "Presentation")
    @@ ("product_type" :> "ProductType") @@ ("fractions" :> "Fractions")

\* C6: on an exact-match hit every listed field that was empty and has a registry value
\* holds that value afterwards (fractions as a string), and name is unchanged.
C6_HitFillsEmptyFields ==
    (ExactRan /\ registry_row # NoRow) =>
        /\ \A f \in DOMAIN C6_Column :
              (~Truthy(GetAttr(before, f)) /\ Truthy(registry_row[C6_Column[f]]))
                  => GetAttr(processed_medications, f) = Str(registry_row[C6_Column[f]])
        /\ processed_medications["name"] = before["name"]

\* every extraction task of the batch ended with an error text
AllExtractionsFailed ==
    /\ Len(tasks) >= 1
    /\ AllTasksDone
    /\ \A i \in 1..Len(tasks) : tasks[i].text # "extracted text"

\* C7: when every image's extraction fails the run ends in a no-input-data outcome
\* and the structuring stage is never invoked.
C7_AllFailedStopsRun ==
    AllExtractionsFailed =>
        /\ ~InSeq("process_medication_data", calls)
        /\ Terminal => error = "NoInputData"

IsPrefix(s, t) == Len(s) <= Len(t) /\ \A i \in 1..Len(s) : s[i] = t[i]

C9_StructuringOnceAfterJoin ==
    /\ (Terminal /\ Len(files) >= 1) => Count("process_medication_data", calls) = 1
    /\ InSeq("process_medication_data", calls) => AllTasksDone

\* C10: the fan-out creates one extraction task per image; once the extraction step is
\* over every image has been extracted exactly once.
C10_OneTaskPerImage ==
    /\ pc \notin {"START", "prepare_ocr_tasks"} =>
          /\ Len(tasks) = Len(files)
          /\ \A i \in 1..Len(files) : tasks[i].file = files[i]
    /\ \A i \in 1..Len(tasks) : tasks[i].ocr_calls <= 1
    /\ Count("extract_single_image_text_node", calls) <= Len(tasks)
    /\ pc \in {"process_medication_data", "check_gtin", "END", "raised"} =>
          /\ AllTasksDone
          /\ Count("extract_single_image_text_node", calls) = Len(files)

C10_Witness ==
    /\ Len(files) >= 2
    /\ pc = "raised"
    /\ AllTasksDone
    /\ \A i \in 1..Len(tasks) : tasks[i].ocr_calls = 1

\* the fan-out step is over: its updates were applied or the join raised
AfterFanIn == pc \in {"process_medication_data", "check_gtin", "END", "raised"}

\* C11: after the fan-in of a batch of one or more images the texts, the file names and
\* the providers used have one entry per image, and the three entries at every index
\* come from the same extraction task.
C11_AlignedAfterFanIn ==
    (AfterFanIn /\ Len(files) >= 1) =>
        /\ Len(extracted_texts) = Len(files)
        /\ Len(file_names) = Len(files)
        /\ Len(ocr_provider_used) = Len(files)
        /\ \A i \in 1..Len(files) :
              \E t \in 1..Len(tasks) :
                  /\ extracted_texts[i] = tasks[t].text
                  /\ file_names[i] = tasks[t].file
                  /\ ocr_provider_used[i] = tasks[t].provider_used

\* the per-image error strings an extraction task returns
ErrorTexts == {"Error: OCR Provider not available.", "Error processing file"}

TaskFailed(t) == tasks[t].pc = "done" /\ tasks[t].text \in ErrorTexts

TaskSucceeded(t) == tasks[t].pc = "done" /\ tasks[t].text \notin ErrorTexts

\* C12: when one image's extraction fails and another succeeds, the failing task ends
\* with an error string rather than an exception, every task's text is aggregated into
\* the state, and the run is not aborted at the join.
C12_FailureIsolated ==
    (/\ AfterFanIn
     /\ \E t \in 1..Len(tasks) : TaskFailed(t)
     /\ \E t \in 1..Len(tasks) : TaskSucceeded(t)) =>
        /\ error # "InvalidUpdateError"
        /\ \A t \in 1..Len(tasks) :
              \E k \in 1..Len(extracted_texts) : extracted_texts[k] = tasks[t].text

\* task t was asked for a provider of OCRProvider that __init__ did not configure
ProviderNotConfigured(t) ==
    /\ Lower(tasks[t].ocr_provider) \in OCRProviders
    /\ ~InSeq(Lower(tasks[t].ocr_provider), available_providers)

C14_ExactIdempotent ==
    [][CheckGtinAgain => processed_medications' = processed_medications]_vars

\* C14 witness: the first application enriched the record from a registry hit and the
\* second application has run on the enriched record.
C14_Witness ==
    /\ Len(calls) = 2
    /\ pc = "END"
    /\ gtin_found
    /\ processed_medications # before

\* execute_query is over: it returned rows or raised
QueryOver == q_pc \in {"returned", "raised", "done"}

AttemptFailed(i) == attempts[i].ended \in {"connect_failed", "query_failed"}

\* an execute_query call makes at most MAX_RETRIES attempts, none after a success, and
\* raises only after MAX_RETRIES failed attempts in a row
C15_Safety ==
    /\ Len(attempts) <= MAX_RETRIES
    /\ \A i \in 1..Len(attempts) : attempts[i].ended = "ok" => i = Len(attempts)
    /\ q_pc = "returned" => (attempts # <<>> /\ attempts[Len(attempts)].ended = "ok")
    /\ (q_pc = "raised" \/ q_outcome = "failed") =>
          /\ Len(attempts) = MAX_RETRIES
          /\ \A i \in 1..Len(attempts) : AttemptFailed(i)
    /\ (QueryOver /\ \E i \in 1..Len(attempts) : attempts[i].ended = "ok") =>
          q_pc # "raised" /\ q_outcome # "failed"

\* C15: one execute_query call attempts the query at most MAX_RETRIES (3) times, stops at
\* the first successful attempt and returns its result, reports failure only after the
\* third failed attempt in a row, and always terminates.
C15_BoundedRetries == []C15_Safety /\ <>QueryOver

\* C15 witness: two failed attempts, then the third succeeds and its rows are returned.
C15_Witness ==
    /\ q_pc = "returned"
    /\ Len(attempts) = MAX_RETRIES
    /\ AttemptFailed(1) /\ AttemptFailed(2)
    /\ attempts[MAX_RETRIES].ended = "ok"
    /\ q_return.kind = "list"
    /\ q_return.value # <<>>

\* C16: after a failed attempt the connection handle is closed and set to None before
\* the next attempt starts, and every retry attempt runs on a connection established
\* for it, never on a handle an earlier attempt of the call used.
C16_ReconnectBeforeRetry ==
    /\ (q_pc = "loop" /\ retry_count > 0) =>
          /\ connection = 0
          /\ \A i \in 1..Len(attempts) : attempts[i].handle # 0 => attempts[i].handle \in closed
    /\ (q_pc = "execute" /\ retry_count > 0) =>
          /\ connection # 0
          /\ connection \notin closed
          /\ \A i \in 1..Len(attempts) : attempts[i].handle # connection
    /\ \A j \in 2..Len(attempts) :
          attempts[j].handle # 0 =>
              \A i \in 1..(j - 1) : attempts[i].handle # attempts[j].handle

\* C16 witness: the first attempt failed on an open connection, that handle is closed,
\* and the retry is about to run the query on another handle.
C16_Witness ==
    /\ q_pc = "execute"
    /\ retry_count = 1
    /\ attempts[1].ended = "query_failed"
    /\ attempts[1].handle \in closed
    /\ connection # attempts[1].handle

\* C17: a registry failure that outlasts the retries never leaves the lookup service as
\* an exception: query_gtin returns None and search_products returns an empty list.
C17_FailureNeverRaised ==
    /\ q_pc # "raised_out"
    /\ (q_pc = "done" /\ q_outcome = "failed") =>
          q_return = IF q_op = "query_gtin" THEN PyNone ELSE PyList(<<>>)

\* C17 witness: search_products has returned after execute_query gave up, with attempts
\* that failed in the connection and in the query.
C17_Witness ==
    /\ q_op = "search_products"
    /\ q_pc = "done"
    /\ q_outcome = "failed"
    /\ \E i \in 1..Len(attempts) : attempts[i].ended = "connect_failed"
    /\ \E i \in 1..Len(attempts) : attempts[i].ended = "query_failed"

\* the lookup of the node yielded no entry: a miss, or a failure that outlasted the retries
NoEntry == q_outcome \in {"miss", "failed"}

\* C18: when the exact lookup yields no entry, by a miss or by a registry failure after
\* the retries, the node returns without raising, every field of the record is as it
\* was before the step, gtin_found is false and database_info is empty.
C18_NoEntryLeavesRecord ==
    /\ q_pc # "raised_out"
    /\ (ExactRan /\ NoEntry) =>
          /\ pc = "END"
          /\ error = ""
          /\ processed_medications = before
          /\ gtin_found = FALSE
          /\ database_info = NoRow

\* C18 witness: the node has returned for a record with a populated name whose lookup
\* failed three times.
C18_Witness ==
    /\ ExactRan
    /\ q_outcome = "failed"
    /\ Len(attempts) = MAX_RETRIES
    /\ Truthy(before["name"])
    /\ lookups # <<>>

\* C19: when the lookup failed because the registry is unavailable, the state the node
\* returns differs from the state an ordinary miss returns: it carries an error.
C19_FailureDistinctFromMiss ==
    (ExactRan /\ q_outcome = "failed") =>
        \/ error # ""
        \/ gtin_found
        \/ database_info # NoRow

\* C20: when the vector service reports no candidate (the embedding or the index failed,
\* or nothing matched), the semantic node returns without raising and every field of the
\* record is as it was before.
C20_NoCandidateLeavesRecord ==
    (SemanticRan /\ vector_results = <<>>) =>
        /\ pc = "END"
        /\ error = ""
        /\ processed_medications = before

\* the five record fields the claim names, in its priority order
C21_Fields == <<"name", "common_denomination", "concentration", "form_simple", "brand_name">>

RECURSIVE C21_Terms(_, _)
C21_Terms(rec, i) ==
    IF i > Len(C21_Fields) THEN <<>>
    ELSE (IF Truthy(rec[C21_Fields[i]]) THEN <<rec[C21_Fields[i]]>> ELSE <<>>)
         \o C21_Terms(rec, i + 1)

\* C21: the semantic search query joins, in the order name, common_denomination,
\* concentration, form_simple, brand_name, exactly the non-empty ones of these fields of
\* the record; a non-empty name is the first term.
C21_QueryFromFields ==
    SemanticRan =>
        /\ search_query = C21_Terms(before, 1)
        /\ Truthy(before["name"]) =>
              (search_query # <<>> /\ search_query[1] = before["name"])

\* the structured-output call of the structuring stage failed in this run
StructuringFailed == error = "StructuringError"

\* C22: when the structuring call fails or its output fails the schema, the structuring
\* stage does not raise and returns a record (never null), and the run goes on to the
\* enrichment stage.
C22_StructuringFailureYieldsRecord ==
    StructuringFailed =>
        /\ pc \in {"check_gtin", "END"}
        /\ processed_medications # NoRow

\* the position of a node in the order prepare, extraction, structuring, enrichment
StageRank(node) ==
    CASE node = "prepare_ocr_tasks" -> 1
      [] node = "extract_single_image_text_node" -> 2
      [] node = "process_medication_data" -> 3
      [] node \in {"check_gtin", "search_medications_semantic"} -> 4

\* C23: a run is single-pass: the nodes are invoked in the order prepare, extraction,
\* structuring, enrichment; none is entered again after a later one has started;
\* structuring and enrichment run at most once; exact and semantic search never both
\* run in one run.
C23_SinglePass ==
    /\ \A i, j \in 1..Len(calls) : i < j => StageRank(calls[i]) <= StageRank(calls[j])
    /\ Count("prepare_ocr_tasks", calls) <= 1
    /\ Count("process_medication_data", calls) <= 1
    /\ Count("check_gtin", calls) + Count("search_medications_semantic", calls) <= 1
    /\ pc = "END" => calls[Len(calls)] = "check_gtin"

\* C23 witness: a one-image run has ended after each of the four stages ran once.
C23_Witness ==
    /\ pc = "END"
    /\ calls = <<"prepare_ocr_tasks", "extract_single_image_text_node",
                 "process_medication_data", "check_gtin">>

\* C24: a run over one or more images of which at least one was extracted successfully
\* ends in the terminal state END, and its final state holds one structured record,
\* whatever the other images, the registry lookup and the semantic search did.
C24_SuccessfulImageReachesDone ==
    (/\ Terminal
     /\ Len(files) >= 1
     /\ \E t \in 1..Len(tasks) : TaskSucceeded(t)) =>
        /\ pc = "END"
        /\ processed_medications # NoRow

ContentTypes == {"image/png", "image/jpeg", "application/pdf", None}

ContentTypeLists(n) == [1..n -> ContentTypes]

\* (mutation of StartsWithImage: every declared type passes)
StartsWithAnything(ct) == TRUE

\* file.content_type.startswith("image/")
StartsWithImage(ct) == ct \in {"image/png", "image/jpeg"}

\* the first file the validation loop stops at: one without a content type (the call of
\* startswith on None raises) or one that is no image; 0 when the loop runs through
FirstStop(cts) ==
    IF \E i \in 1..Len(cts) : cts[i] = None \/ ~StartsWithImage(cts[i])
    THEN CHOOSE i \in 1..Len(cts) :
            /\ cts[i] = None \/ ~StartsWithImage(cts[i])
            /\ \A j \in 1..(i - 1) : cts[j] # None /\ StartsWithImage(cts[j])
    ELSE 0

\* a request has arrived: the batch, the content type of each file, no answer yet
InitEndpoint ==
    /\ pc = "endpoint"
    /\ files \in Batches
    /\ content_types \in ContentTypeLists(Len(files))
    /\ ocr_provider = None
    /\ available_providers \in ProviderConfigs
    /\ tasks = <<>>
    /\ extracted_texts = <<>>
    /\ file_names = <<>>
    /\ ocr_provider_used = <<>>
    /\ NoRecordYet
    /\ NoEnrichmentYet
    /\ ServiceIdle
    /\ http_status = 0
    /\ graph_invoked = FALSE
    /\ vectorize_call = NoCall
    /\ vectorization_status = IdleStatus
    /\ responses = <<>>
    /\ bg_tasks = <<>>
    /\ broken = {}
    /\ conn_events = <<>>
    /\ error = ""
    /\ calls = <<>>

\* extract_medication_info up to ocr_graph.ainvoke: an empty batch is answered 400; the
\* loop answers 400 at the first file that is no image, and the AttributeError of a
\* file without content type leaves the handler (status 500); otherwise the initial
\* state gets the files, and the provider when one was given, and the graph is invoked
ExtractMedicationInfo ==
    /\ pc = "endpoint"
    /\ IF files = <<>>
       THEN /\ http_status' = 400
            /\ pc' = "responded"
            /\ UNCHANGED <<ocr_provider, graph_invoked, error>>
       ELSE IF FirstStop(content_types) # 0
       THEN /\ http_status' = IF content_types[FirstStop(content_types)] = None
                              THEN 500 ELSE 400
            /\ error' = IF content_types[FirstStop(content_types)] = None
                        THEN "AttributeError" ELSE error
            /\ pc' = "responded"
            /\ UNCHANGED <<ocr_provider, graph_invoked>>
       ELSE /\ \E provider \in ProviderInputs :
                  ocr_provider' = IF provider \in {None, ""} THEN None ELSE provider
            /\ graph_invoked' = TRUE
            /\ pc' = "START"
            /\ UNCHANGED <<http_status, error>>
    /\ UNCHANGED <<files, available_providers, tasks, extracted_texts, file_names,
                   ocr_provider_used, processed_medications, before, database_info,
                   gtin_found, calls, lookups, semanticVars, dbVars, content_types, vectorize_call,
                   vectorization_status, responses, bg_tasks, broken, conn_events>>

\* the end of extract_medication_info: the result of the run is returned, or the
\* exception the run raised is answered with status 500
ExtractRespond ==
    /\ pc \in {"END", "raised"}
    /\ graph_invoked
    /\ http_status' = IF pc = "raised" THEN 500 ELSE 200
    /\ pc' = "responded"
    /\ UNCHANGED <<graphVars, processed_medications, before, database_info, gtin_found,
                   error, calls, lookups, semanticVars, dbVars, content_types, vectorize_call,
                   graph_invoked, vectorization_status, responses, bg_tasks, broken,
                   conn_events>>

NextEndpoint ==
    \/ ExtractMedicationInfo
    \/ Next
    \/ ExtractRespond

SpecEndpoint == InitEndpoint /\ [][NextEndpoint]_vars

\* C26: an empty batch, and a batch with a file that is no image, is answered with an
\* error status and the graph is never invoked: no node of it runs
C26_RejectedBeforePipeline ==
    (files = <<>> \/ \E i \in 1..Len(content_types) :
                        content_types[i] \notin {"image/png", "image/jpeg"})
        => /\ ~graph_invoked
           /\ calls = <<>>
           /\ pc \in {"endpoint", "responded"}
           /\ pc = "responded" => http_status \in {400, 500}

\* a batch whose second file is a document was answered with status 400
C26_Witness ==
    /\ pc = "responded"
    /\ Len(files) > 1
    /\ content_types[1] = "image/png"
    /\ content_types[2] = "application/pdf"
    /\ http_status = 400
    /\ ~graph_invoked

(* ------------------------------------------------------------------ *)
(* GET /api/gtin/query/{gtin_code}                                    *)
(* ------------------------------------------------------------------ *)
\* a request has arrived and the endpoint calls gtin_service.query_gtin(gtin_code)
InitGtinEndpoint ==
    /\ pc = "get_product_by_gtin"
    /\ NodeGraphInit
    /\ NoRecordYet
    /\ NoEnrichmentYet
    /\ InitService({"query_gtin"})
    /\ ApiIdle
    /\ error = ""
    /\ calls = <<>>

\* the status an exception raised inside the try block of get_product_by_gtin leaves
\* the handler with: `except Exception` is the only handler and HTTPException is an
\* Exception, so whatever was raised is answered as HTTPException(500)
ExceptException(raised) == 500

\* the rest of get_product_by_gtin once query_gtin has returned: `if not product` raises
\* HTTPException(404) inside the try block; a row is answered with status 200
GetProductByGtin ==
    /\ pc = "get_product_by_gtin"
    /\ q_pc = "done"
    /\ http_status' = IF q_return.kind # "dict" THEN ExceptException(404) ELSE 200
    /\ pc' = "responded"
    /\ UNCHANGED <<graphVars, processed_medications, before, database_info, gtin_found,
                   error, calls, lookups, semanticVars, dbVars, content_types, vectorize_call,
                   graph_invoked, vectorization_status, responses, bg_tasks, broken,
                   conn_events>>

NextGtinEndpoint ==
    \/ QueryStart
    \/ Connect
    \/ Execute
    \/ HandleFailure
    \/ ServiceReturn
    \/ GetProductByGtin

SpecGtinEndpoint == InitGtinEndpoint /\ [][NextGtinEndpoint]_vars

\* C27: the endpoint answers 404 when the registry has no product for the code, and
\* 500 only when the lookup failed
C27_MissIs404 ==
    pc = "responded" =>
        /\ q_outcome = "miss" => http_status = 404
        /\ http_status = 500 => q_outcome = "failed"

(* ------------------------------------------------------------------ *)
(* The vectorization job: POST /start, POST /stop, the background task *)
(* ------------------------------------------------------------------ *)
MaxRequests == 4     \* start and stop requests answered in one behaviour

MaxBatches == 3      \* batches one run of vectorize_all_medications upserts at most

\* dict.update
Update(d, new) == [k \in DOMAIN d |-> IF k \in DOMAIN new THEN new[k] ELSE d[k]]

Answer(endpoint, code) == [endpoint |-> endpoint, status_code |-> code]

\* a task as background_tasks.add_task leaves it: not started, no batch upserted;
\* batches_at_stop records the batches it had upserted when a stop request was
\* accepted, -1 while none was
AddedTask == [pc |-> "added", batches |-> 0, batches_at_stop |-> -1]

InitVectorization ==
    /\ pc = "vectorization"
    /\ NodeGraphInit
    /\ NoRecordYet
    /\ NoEnrichmentYet
    /\ ServiceIdle
    /\ ApiIdle
    /\ error = ""
    /\ calls = <<>>

\* (mutation of StartRefused: a start request is never refused)
StartRefusedNever(status) == FALSE

\* `if _vectorization_status["is_running"]` of start_vectorization
StartRefused(status) == status.is_running

\* start_vectorization. The handler runs to its return without the event loop switching
\* to another request: check_vectorization_status, the only call it awaits, has no
\* suspension point of its own (it calls the synchronous get_collection_stats) and
\* catches every exception. A running job is answered 409; a vectorized collection
\* without force is answered with the "info" body; otherwise the status is updated and
\* the task added.
StartVectorization ==
    /\ Len(responses) < MaxRequests
    /\ \E force \in BOOLEAN, is_vectorized \in BOOLEAN :
          IF StartRefused(vectorization_status)
          THEN /\ responses' = Append(responses, Answer("start", 409))
               /\ UNCHANGED <<vectorization_status, bg_tasks>>
          ELSE IF is_vectorized /\ ~force
          THEN /\ responses' = Append(responses, Answer("start", 200))
               /\ UNCHANGED <<vectorization_status, bg_tasks>>
          ELSE /\ vectorization_status' =
                      Update(vectorization_status,
                             [is_running |-> TRUE, start_time |-> "utcnow", progress |-> 0,
                              status |-> "starting", last_result |-> None])
               /\ bg_tasks' = Append(bg_tasks, AddedTask)
               /\ responses' = Append(responses, Answer("start", 200))
    /\ UNCHANGED <<pipelineVars, dbVars, http_status, content_types, vectorize_call, graph_invoked, broken,
                   conn_events>>

\* _run_vectorization_process up to its await, run once the response was sent
RunVectorizationProcess(p) ==
    /\ p \in 1..Len(bg_tasks)
    /\ bg_tasks[p].pc = "added"
    /\ bg_tasks' = [bg_tasks EXCEPT ![p].pc = "running"]
    /\ vectorization_status' =
           Update(vectorization_status, [status |-> "running", progress |-> 0])
    /\ UNCHANGED <<pipelineVars, dbVars, http_status, content_types, vectorize_call, graph_invoked,
                   responses, broken, conn_events>>

\* vectorize_all_medications upserts one more batch (_upsert_batch); its loop reads
\* nothing of _vectorization_status
UpsertBatch(p) ==
    /\ p \in 1..Len(bg_tasks)
    /\ bg_tasks[p].pc = "running"
    /\ bg_tasks[p].batches < MaxBatches
    /\ bg_tasks' = [bg_tasks EXCEPT ![p].batches = @ + 1]
    /\ UNCHANGED <<pipelineVars, dbVars, http_status, content_types, vectorize_call, graph_invoked,
                   vectorization_status, responses, broken, conn_events>>

\* (mutation of FinalUpdate: the except block does not clear is_running)
FinalUpdateErrorKeepsRunning(outcome) ==
    IF outcome = "error"
    THEN [status |-> "error", error |-> "str(e)", end_time |-> "utcnow"]
    ELSE [is_running |-> FALSE, status |-> outcome, progress |-> 100,
          last_result |-> "result", end_time |-> "utcnow"]

\* what _run_vectorization_process writes at its end: after the await returned a result
\* with "success" ("completed") or without ("failed"), or in its except block ("error")
FinalUpdate(outcome) ==
    IF outcome = "error"
    THEN [is_running |-> FALSE, status |-> "error", error |-> "str(e)",
          end_time |-> "utcnow"]
    ELSE [is_running |-> FALSE, status |-> outcome, progress |-> 100,
          last_result |-> "result", end_time |-> "utcnow"]

\* the rest of _run_vectorization_process: vectorize_all_medications returned a result
\* with or without "success", or the process raised
FinishVectorizationProcess(p) ==
    /\ p \in 1..Len(bg_tasks)
    /\ bg_tasks[p].pc = "running"
    /\ bg_tasks' = [bg_tasks EXCEPT ![p].pc = "done"]
    /\ \E outcome \in {"completed", "failed", "error"} :
          vectorization_status' = Update(vectorization_status, FinalUpdate(outcome))
    /\ UNCHANGED <<pipelineVars, dbVars, http_status, content_types, vectorize_call, graph_invoked,
                   responses, broken, conn_events>>

\* stop_vectorization: 400 when no job is running; otherwise the status gets "stopping"
\* and stop_requested. No running task is touched: only the batches each had upserted
\* at this moment are noted.
StopVectorization ==
    /\ Len(responses) < MaxRequests
    /\ IF ~vectorization_status.is_running
       THEN /\ responses' = Append(responses, Answer("stop", 400))
            /\ UNCHANGED <<vectorization_status, bg_tasks>>
       ELSE /\ vectorization_status' =
                   Update(vectorization_status,
                          [status |-> "stopping", stop_requested |-> "True"])
            /\ responses' = Append(responses, Answer("stop", 200))
            /\ bg_tasks' =
                   [p \in 1..Len(bg_tasks) |->
                       IF bg_tasks[p].pc # "done" /\ bg_tasks[p].batches_at_stop = -1
                       THEN [bg_tasks[p] EXCEPT !.batches_at_stop = bg_tasks[p].batches]
                       ELSE bg_tasks[p]]
    /\ UNCHANGED <<pipelineVars, dbVars, http_status, content_types, vectorize_call, graph_invoked, broken,
                   conn_events>>

NextVectorization ==
    \/ StartVectorization
    \/ \E p \in 1..MaxRequests : RunVectorizationProcess(p)
    \/ \E p \in 1..MaxRequests : UpsertBatch(p)
    \/ \E p \in 1..MaxRequests : FinishVectorizationProcess(p)
    \/ StopVectorization

SpecVectorization == InitVectorization /\ [][NextVectorization]_vars

\* the tasks that were added and have not finished
ActiveTasks == {p \in 1..Len(bg_tasks) : bg_tasks[p].pc # "done"}

\* C28: at most one vectorization task is active at any time, and a start request that
\* arrives while is_running is true is answered 409, adds no task and changes no field
\* of the job status
C28_SingleActiveProcess ==
    /\ [](Cardinality(ActiveTasks) <= 1)
    /\ [][(StartVectorization /\ vectorization_status.is_running)
            => /\ responses' = Append(responses, Answer("start", 409))
               /\ bg_tasks' = bg_tasks
               /\ vectorization_status' = vectorization_status]_vars

\* a first job finished, a second one is running, and a start request that arrived
\* while it ran was answered 409
C28_Witness ==
    /\ Len(bg_tasks) = 2
    /\ bg_tasks[1].pc = "done"
    /\ bg_tasks[2].pc = "running"
    /\ vectorization_status.is_running
    /\ Len(responses) = 3
    /\ responses[3] = Answer("start", 409)

\* C29: after an accepted stop request a task upserts no batch beyond the one in
\* progress when the request arrived, and a stop request that arrives when no job is
\* running is answered 400 and changes no field of the job status
C29_StopsAfterCurrentBatch ==
    /\ [](\A p \in 1..Len(bg_tasks) :
             bg_tasks[p].batches_at_stop # -1
                 => bg_tasks[p].batches <= bg_tasks[p].batches_at_stop + 1)
    /\ [][(StopVectorization /\ ~vectorization_status.is_running)
            => /\ responses' = Append(responses, Answer("stop", 400))
               /\ vectorization_status' = vectorization_status]_vars

(* ------------------------------------------------------------------ *)
(* GtinDatabaseConnection used directly: connect, is_connected,       *)
(* disconnect                                                         *)
(* ------------------------------------------------------------------ *)
MaxCalls == 4        \* calls on the connection (and losses of it) in one behaviour

\* is_connected(): False without a connection; otherwise SELECT 1 is run on it, which
\* raises (False) on a handle that was closed or that the server no longer answers on
IsConnected(conn, lost, shut) == conn # 0 /\ conn \notin lost /\ conn \notin shut

\* (mutation of NeedsNewConnection: an existing connection is never tested)
NeedsNewWithoutTest(conn, connected, force_new, aged) == conn = 0 \/ force_new \/ aged

\* the condition of connect() under which the connection is replaced
NeedsNewConnection(conn, connected, force_new, aged) == conn = 0 \/ ~connected \/ force_new \/ aged

\* one entry of conn_events: for connect, the handle it returned and whether it returned
\* (value FALSE: it raised); for is_connected, what it returned
Event(op, handle, value) == [op |-> op, handle |-> handle, value |-> value]

InitConnection ==
    /\ pc = "GtinDatabaseConnection"
    /\ NodeGraphInit
    /\ NoRecordYet
    /\ NoEnrichmentYet
    /\ q_op = ""
    /\ q_pc = "idle"
    /\ retry_count = 0
    /\ connection \in {0, 1}
    /\ handles = connection
    /\ closed = {}
    /\ attempts = <<>>
    /\ q_return = NotReturned
    /\ q_outcome = ""
    /\ last_connection_time = connection
    /\ ApiIdle
    /\ error = ""
    /\ calls = <<>>

\* (mutation of ConnectRetryAllowed: one more attempt than MAX_RETRIES)
ConnectRetryAllowedOnceMore(n) == n <= MAX_RETRIES

\* `while retry_count < MAX_RETRIES` and `if retry_count < MAX_RETRIES` of connect
ConnectRetryAllowed(n) == n < MAX_RETRIES

\* how the attempts of one connect() call can go: outcomes[k] says whether the k-th
\* call of pymssql.connect would succeed
ConnectOutcomes == [1..(MAX_RETRIES + 1) -> BOOLEAN]

\* the retry loop of connect from retry_count on: the calls of pymssql.connect it makes
\* and whether one of them succeeded (the loop breaks) or the last failure was re-raised
RECURSIVE ConnectLoop(_, _)
ConnectLoop(outcomes, n) ==
    IF ~ConnectRetryAllowed(n) THEN [made |-> 0, connected |-> FALSE]
    ELSE IF outcomes[n + 1] THEN [made |-> 1, connected |-> TRUE]
    ELSE IF ConnectRetryAllowed(n + 1)
         THEN LET rest == ConnectLoop(outcomes, n + 1) IN
              [made |-> rest.made + 1, connected |-> rest.connected]
         ELSE [made |-> 1, connected |-> FALSE]

\* the entry of conn_events for a connect() call: what Event records, the calls of
\* pymssql.connect it made, and what it found: the connection there was (0 for None),
\* whether that answered, force_new, and whether it was older than connection_max_age
ConnectEvent(handle, value, made, had, live, force_new, aged) ==
    [op |-> "connect", handle |-> handle, value |-> value, made |-> made, had |-> had,
     live |-> live, force_new |-> force_new, aged |-> aged]

\* connect(force_new): the connection is returned as it is when it answers and is young
\* enough; otherwise it is closed and set to None, and pymssql.connect is tried up to
\* MAX_RETRIES times; a success sets last_connection_time, and when all attempts fail
\* the exception is re-raised
ConnectCall ==
    /\ Len(conn_events) < MaxCalls
    /\ \E force_new \in BOOLEAN, aged \in BOOLEAN, outcomes \in ConnectOutcomes :
          LET live == IsConnected(connection, broken, closed)
              loop == ConnectLoop(outcomes, 0)
          IN
          IF ~NeedsNewConnection(connection, live, force_new, aged)
          THEN /\ conn_events' =
                      Append(conn_events,
                             ConnectEvent(connection, TRUE, 0, connection, live, force_new, aged))
               /\ UNCHANGED <<connection, handles, closed, last_connection_time>>
          ELSE /\ closed' = IF connection # 0 THEN closed \cup {connection} ELSE closed
               /\ IF loop.connected
                  THEN /\ connection' = handles + 1
                       /\ handles' = handles + 1
                       /\ last_connection_time' = handles + 1
                       /\ conn_events' =
                              Append(conn_events,
                                     ConnectEvent(handles + 1, TRUE, loop.made, connection,
                                                  live, force_new, aged))
                  ELSE /\ connection' = 0
                       /\ handles' = handles
                       /\ last_connection_time' = last_connection_time
                       /\ conn_events' =
                              Append(conn_events,
                                     ConnectEvent(0, FALSE, loop.made, connection, live,
                                                  force_new, aged))
    /\ UNCHANGED <<pipelineVars, q_op, q_pc, retry_count, attempts, q_return, q_outcome,
                   http_status, content_types, vectorize_call, graph_invoked, vectorization_status,
                   responses, bg_tasks, broken>>

IsConnectedCall ==
    /\ Len(conn_events) < MaxCalls
    /\ conn_events' = Append(conn_events,
                             Event("is_connected", 0, IsConnected(connection, broken, closed)))
    /\ UNCHANGED <<pipelineVars, dbVars, http_status, content_types, vectorize_call, graph_invoked,
                   vectorization_status, responses, bg_tasks, broken>>

DisconnectCall ==
    /\ Len(conn_events) < MaxCalls
    /\ closed' = closed \cup Disconnect(connection).closed
    /\ connection' = Disconnect(connection).connection
    /\ conn_events' = Append(conn_events, Event("disconnect", 0, TRUE))
    /\ UNCHANGED <<pipelineVars, q_op, q_pc, retry_count, handles, attempts, q_return,
                   q_outcome, last_connection_time, http_status, content_types, vectorize_call, graph_invoked,
                   vectorization_status, responses, bg_tasks, broken>>

\* the server, or the network, drops the open connection between two calls
ConnectionLost ==
    /\ Len(conn_events) < MaxCalls
    /\ connection # 0
    /\ connection \notin broken
    /\ broken' = broken \cup {connection}
    /\ conn_events' = Append(conn_events, Event("lost", connection, TRUE))
    /\ UNCHANGED <<pipelineVars, dbVars, http_status, content_types, vectorize_call, graph_invoked,
                   vectorization_status, responses, bg_tasks>>

NextConnection ==
    \/ ConnectCall
    \/ IsConnectedCall
    \/ DisconnectCall
    \/ ConnectionLost

SpecConnection == InitConnection /\ [][NextConnection]_vars

\* C30: right after a connect() that returned, the handle it returned is not None, it
\* is the connection, and is_connected() is true; right after disconnect() the
\* connection is None and is_connected() is false. This holds for every connect(),
\* so also for one that follows a disconnect().
C30_ConnectDisconnectConnect ==
    LET n == Len(conn_events) IN
    n > 0 =>
        /\ (conn_events[n].op = "connect" /\ conn_events[n].value)
              => /\ conn_events[n].handle # 0
                 /\ connection = conn_events[n].handle
                 /\ IsConnected(connection, broken, closed)
        /\ conn_events[n].op = "disconnect"
              => /\ connection = 0
                 /\ ~IsConnected(connection, broken, closed)
        /\ (n > 1 /\ conn_events[n].op = "is_connected")
              => /\ (conn_events[n - 1].op = "connect" /\ conn_events[n - 1].value)
                       => conn_events[n].value
                 /\ conn_events[n - 1].op = "disconnect" => ~conn_events[n].value

\* connect, is_connected (true), disconnect, and a connect that returned a new handle
C30_Witness ==
    /\ Len(conn_events) = 4
    /\ conn_events[1].op = "connect" /\ conn_events[1].value
    /\ conn_events[2] = Event("is_connected", 0, TRUE)
    /\ conn_events[3].op = "disconnect"
    /\ conn_events[4].op = "connect" /\ conn_events[4].value
    /\ conn_events[4].handle # conn_events[1].handle
    /\ connection = conn_events[4].handle

(* ------------------------------------------------------------------ *)
(* Sequences of enrichment steps on one record                        *)
(* ------------------------------------------------------------------ *)
MaxSteps == 2        \* enrichment steps applied to one record

\* a code that passes the gate, and no code
EnrichCodes == {None, "7501287617019"}

\* registry rows: complete (the first assignment raises), without Name (the assignments
\* run up to product_type, which raises), without Name and ProductType (all succeed)
EnrichRows ==
    {MkEntry(TextKeys \ drop, None, fractions) :
        drop \in {{}, {"Name"}, {"Name", "ProductType"}}, fractions \in {None, "int:12"}}

\* answers of the vector service: none, or one candidate at or above the threshold,
\* with or without product_type
EnrichLists ==
    {<<>>} \cup
    {<<MkCandidate(CandidateTextKeys \ drop, fractions, score)>> :
        drop \in {{}, {"product_type"}}, fractions \in {None, "12"}, score \in {70, 82}}

InitEnrich ==
    /\ pc = "enrich"
    /\ NodeGraphInit
    /\ processed_medications \in Records(EnrichCodes, MaxMix)
    /\ before = processed_medications
    /\ NoEnrichmentYet
    /\ ServiceIdle
    /\ ApiIdle
    /\ error = ""
    /\ calls = <<>>

\* check_gtin_in_database_v3 applied to the record object as the steps before left it
ExactStep ==
    /\ Len(calls) < MaxSteps
    /\ \E found \in {NoRow} \cup EnrichRows : ApplyCheckGtin(found)

\* search_medications_semantic applied to the record object as the steps before left it
SemanticStep ==
    /\ Len(calls) < MaxSteps
    /\ \E results \in EnrichLists : ApplySearchSemantic(results)

NextEnrich ==
    \/ ExactStep
    \/ SemanticStep

SpecEnrich == InitEnrich /\ [][NextEnrich]_vars

\* the fields no enrichment stage writes
OcrOnlyFields == {"bar_code", "lot_number", "expiration_date", "quantity", "price"}

\* C31: after any sequence of exact-match and semantic-match steps, bar_code,
\* lot_number, expiration_date, quantity and price hold the values the structuring
\* stage produced
C31_OcrFieldsKept ==
    \A f \in OcrOnlyFields : processed_medications[f] = before[f]

\* an exact-match step and a semantic-match step both ran and the record was changed
C31_Witness ==
    /\ InSeq("check_gtin", calls)
    /\ InSeq("search_medications_semantic", calls)
    /\ processed_medications # before
    /\ Truthy(before["lot_number"])
    /\ Truthy(before["price"])

\* C32: every extraction task carries the batch's provider selection, which is
\* "mistral" when the batch state had none or an empty one, and no step after that
\* changes the selection, in the state or in a task
C32_ProviderSelectionShared ==
    /\ [](\A i \in 1..Len(tasks) :
             tasks[i].ocr_provider = ocr_provider /\ ocr_provider \notin {None, ""})
    /\ [][/\ ocr_provider' = IF ocr_provider \in {None, ""} THEN "mistral" ELSE ocr_provider
          /\ \A i \in 1..Len(tasks) :
                i <= Len(tasks') /\ tasks'[i].ocr_provider = tasks[i].ocr_provider]_vars

\* two tasks carry the selection the request made, and one of them has finished
C32_Witness ==
    /\ Len(tasks) = 2
    /\ ocr_provider = "GEMINI"
    /\ tasks[1].ocr_provider = "GEMINI"
    /\ tasks[2].ocr_provider = "GEMINI"
    /\ tasks[1].pc = "done"
    /\ tasks[2].pc = "awaiting_ocr"

\* C33: in every state check_gtin_in_database_v3 returns, gtin_found is true exactly
\* when database_info holds an entry, and then the entry is the row query_gtin returned
\* for the record's cleaned code
C33_FoundIffEntry ==
    (pc = "END" /\ ExactRan) =>
        /\ gtin_found <=> database_info # NoRow
        /\ gtin_found =>
              /\ q_return.kind = "dict"
              /\ database_info = q_return.value
              /\ lookups = <<CleanCode(before["bar_code"])>>

\* the node returned after a hit that filled fields of the record
C33_Witness ==
    /\ pc = "END"
    /\ ExactRan
    /\ gtin_found
    /\ q_outcome = "hit"
    /\ database_info = MkEntry(TextKeys \ {"Name", "ProductType"}, None, "12")
    /\ processed_medications # before

\* what the last connect() call found allowed it to keep the connection
C34_MayReuse(e) == e.had # 0 /\ e.live /\ ~e.force_new /\ ~e.aged

\* C34: connect() returns the connection it found, without a call of pymssql.connect,
\* only when there was one, it answered, force_new was false and it was not too old; in
\* every other case the old handle is closed and dropped and a new one is opened; one
\* call makes at most MAX_RETRIES attempts; and last_connection_time changes only in a
\* step that opened a new handle
C34_ConnectContract ==
    /\ [](LET n == Len(conn_events) IN
          (n > 0 /\ conn_events[n].op = "connect") =>
              LET e == conn_events[n] IN
              /\ e.made <= MAX_RETRIES
              /\ (e.value /\ e.made = 0) => (C34_MayReuse(e) /\ e.handle = e.had)
              /\ ~C34_MayReuse(e) =>
                    /\ e.made >= 1
                    /\ e.had # 0 => (e.had \in closed /\ connection # e.had)
                    /\ e.value => (e.handle = connection /\ e.handle \notin closed)
              /\ ~e.value => e.made = MAX_RETRIES)
    /\ [][last_connection_time' # last_connection_time
            => /\ handles' = handles + 1
               /\ connection' = handles'
               /\ last_connection_time' = connection']_vars

\* a connect() call found a connection that no longer answered, closed it, and got a
\* new handle at its third attempt
C34_Witness ==
    LET n == Len(conn_events) IN
    /\ n > 1
    /\ conn_events[n].op = "connect"
    /\ conn_events[n].value
    /\ conn_events[n].made = MAX_RETRIES
    /\ conn_events[n].had # 0
    /\ ~conn_events[n].live
    /\ conn_events[n].had \in closed
    /\ last_connection_time = connection

\* a task that was added is run, and the bulk vectorization it awaits returns or raises
SpecVectorizationFair ==
    /\ SpecVectorization
    /\ WF_vars(\E p \in 1..MaxRequests : RunVectorizationProcess(p))
    /\ WF_vars(\E p \in 1..MaxRequests : FinishVectorizationProcess(p))

\* C35: after every accepted start is_running becomes false again, whichever way the
\* bulk vectorization ends, and whenever no job is running after one has run the
\* status is completed, failed or error
C35_RunningEventuallyCleared ==
    /\ vectorization_status.is_running ~> ~vectorization_status.is_running
    /\ []((~vectorization_status.is_running /\ bg_tasks # <<>>)
             => vectorization_status.status \in {"completed", "failed", "error"})

\* a job ended by raising, and a later start request was accepted
C35_Witness ==
    /\ Len(bg_tasks) = 2
    /\ bg_tasks[1].pc = "done"
    /\ bg_tasks[2].pc = "added"
    /\ vectorization_status.error # Absent
    /\ vectorization_status.is_running
    /\ responses = <<Answer("start", 200), Answer("start", 200)>>

\* a start request was accepted and its task has not been run yet
C36_JustAccepted ==
    /\ bg_tasks # <<>>
    /\ bg_tasks[Len(bg_tasks)].pc = "added"
    /\ bg_tasks[Len(bg_tasks)].batches_at_stop = -1

\* C36: a newly accepted start begins without a pending stop request: the job status
\* carries no stop_requested left by a stop request made during an earlier run
C36_StartClearsStopRequest ==
    C36_JustAccepted => vectorization_status.stop_requested = Absent

(* ------------------------------------------------------------------ *)
(* MedicationVectorService.vectorize_all_medications                  *)
(* ------------------------------------------------------------------ *)
MaxRows == 3         \* rows the registry query returns

MaxBatchSize == 2    \* batch_size: 1..MaxBatchSize

\* what happens to a row in the loop body: it yields a point; its Name is blank after
\* strip(); a NULL column makes _create_searchable_text raise; the embedding call raises
RowKinds == {"ok", "blank_name", "null_column", "embed_fails"}

RowLists == UNION {[1..n -> RowKinds] : n \in 0..MaxRows}

\* the call has the rows of the registry query and has not entered the loop
InitVectorize ==
    /\ pc = "vectorize_all_medications"
    /\ NodeGraphInit
    /\ NoRecordYet
    /\ NoEnrichmentYet
    /\ ServiceIdle
    /\ http_status = 0
    /\ content_types = <<>>
    /\ graph_invoked = FALSE
    /\ vectorization_status = IdleStatus
    /\ responses = <<>>
    /\ bg_tasks = <<>>
    /\ broken = {}
    /\ conn_events = <<>>
    /\ error = ""
    /\ calls = <<>>
    /\ \E rows \in RowLists, batch_size \in 1..MaxBatchSize :
          vectorize_call =
              [pc |-> "start", rows |-> rows, batch_size |-> batch_size, i |-> 1,
               points_to_upsert |-> <<>>, processed_count |-> 0, failed_count |-> 0,
               skipped_count |-> 0, in_processed |-> {}, in_failed |-> {},
               in_skipped |-> {}, upserts |-> <<>>, result |-> "unset"]

VectorizeUnchanged ==
    UNCHANGED <<pipelineVars, dbVars, http_status, content_types, graph_invoked,
                vectorization_status, responses, bg_tasks, broken, conn_events>>

\* total_medications == 0 returns an error result; otherwise the counters start at 0
VectorizeStart ==
    /\ vectorize_call.pc = "start"
    /\ vectorize_call' =
           IF Len(vectorize_call.rows) = 0
           THEN [vectorize_call EXCEPT !.pc = "returned", !.result = "error"]
           ELSE [vectorize_call EXCEPT !.pc = "loop"]
    /\ VectorizeUnchanged

\* one iteration of the loop. A row without name is skipped; a row whose text or
\* embedding raises is counted as failed by the except block; otherwise the point is
\* appended and processed_count incremented, and a full batch is upserted: when
\* _upsert_batch raises, the same except block counts a failure and `continue`s, so
\* points_to_upsert is not emptied.
VectorizeRow ==
    /\ vectorize_call.pc = "loop"
    /\ vectorize_call.i <= Len(vectorize_call.rows)
    /\ LET c == vectorize_call
           i == c.i
           kind == c.rows[i]
           points == Append(c.points_to_upsert, i)
       IN
       IF kind = "blank_name"
       THEN vectorize_call' = [c EXCEPT !.i = i + 1, !.skipped_count = @ + 1,
                                        !.in_skipped = @ \cup {i}]
       ELSE IF kind \in {"null_column", "embed_fails"}
       THEN vectorize_call' = [c EXCEPT !.i = i + 1, !.failed_count = @ + 1,
                                        !.in_failed = @ \cup {i}]
       ELSE IF Len(points) >= c.batch_size
       THEN \E upsert_ok \in BOOLEAN :
               vectorize_call' =
                   IF upsert_ok
                   THEN [c EXCEPT !.i = i + 1, !.processed_count = @ + 1,
                                  !.in_processed = @ \cup {i},
                                  !.upserts = Append(@, [points |-> points, ok |-> TRUE]),
                                  !.points_to_upsert = <<>>]
                   ELSE [c EXCEPT !.i = i + 1, !.processed_count = @ + 1,
                                  !.in_processed = @ \cup {i},
                                  !.upserts = Append(@, [points |-> points, ok |-> FALSE]),
                                  !.points_to_upsert = points,
                                  !.failed_count = @ + 1,
                                  !.in_failed = @ \cup {i}]
       ELSE vectorize_call' = [c EXCEPT !.i = i + 1, !.processed_count = @ + 1,
                                        !.in_processed = @ \cup {i},
                                        !.points_to_upsert = points]
    /\ VectorizeUnchanged

\* after the loop: the last batch is upserted when there is one, and the statistics are
\* returned with success; when that upsert raises, the call re-raises
VectorizeFinish ==
    /\ vectorize_call.pc = "loop"
    /\ vectorize_call.i > Len(vectorize_call.rows)
    /\ LET c == vectorize_call IN
       IF c.points_to_upsert = <<>>
       THEN vectorize_call' = [c EXCEPT !.pc = "returned", !.result = "success"]
       ELSE \E upsert_ok \in BOOLEAN :
               vectorize_call' =
                   [c EXCEPT !.pc = IF upsert_ok THEN "returned" ELSE "raised",
                             !.result = IF upsert_ok THEN "success" ELSE "unset",
                             !.upserts = Append(@, [points |-> c.points_to_upsert,
                                                    ok |-> upsert_ok])]
    /\ VectorizeUnchanged

NextVectorize ==
    \/ VectorizeStart
    \/ VectorizeRow
    \/ VectorizeFinish

SpecVectorize == InitVectorize /\ [][NextVectorize]_vars

\* the upsert calls that carried the point of row r
C37_CallsCarrying(r) ==
    {k \in 1..Len(vectorize_call.upserts) : InSeq(r, vectorize_call.upserts[k].points)}

\* C37: when the call returns success, every row was counted in exactly one of
\* total_processed, failed and skipped and their sum is total_in_database, every row
\* counted as processed was sent to the index exactly once, and no upsert call carried
\* more than batch_size points
C37_CountsAndBatches ==
    (vectorize_call.pc = "returned" /\ vectorize_call.result = "success") =>
        LET c == vectorize_call
            rows == 1..Len(c.rows)
        IN
        /\ c.processed_count + c.failed_count + c.skipped_count = Len(c.rows)
        /\ \A r \in rows :
              Cardinality({s \in {"p", "f", "s"} :
                              \/ s = "p" /\ r \in c.in_processed
                              \/ s = "f" /\ r \in c.in_failed
                              \/ s = "s" /\ r \in c.in_skipped}) = 1
        /\ \A r \in c.in_processed : Cardinality(C37_CallsCarrying(r)) = 1
        /\ \A k \in 1..Len(c.upserts) : Len(c.upserts[k].points) <= c.batch_size

====
